---- MODULE Spec2Model ----
(***************************************************************************)
(* The query-execution pipeline of agents-api: a Domain Operation builds a *)
(* Query Plan, the Execution Engine (pg_query) runs it in one transaction  *)
(* on one pooled connection, the invocation counter (increase_counter)     *)
(* observes it, the Result Materializer (wrap_in_class) turns rows into    *)
(* records and the Error Translator (rewrap_exceptions) maps store errors. *)
(* The Domain Operations are translated from agents_api/queries/**; the    *)
(* four decorators live in agents_api/queries/utils.py and                 *)
(* agents_api/metrics/counters.py and are modelled from the specification. *)
(***************************************************************************)
EXTENDS Integers, Sequences, FiniteSets, TLC

\* ------------------------------------------------------------------ bounds
\* Number of concurrent invocation slots (one per inbound request).
NumInv == 3
\* Size of the connection pool.
PoolSize == 2
\* Total number of invocations started in one behaviour.
MaxCalls == 3

Invs == 1..NumInv
Conns == 1..PoolSize

\* Python's None.
None == "None"

\* A request value that may be None, a string, a boolean, a list or a dict is
\* written as its text: None as "None", False as "false", the empty string as
\* "", the empty list as "[]", the empty dict as "{}", the number zero as "0";
\* a list as "[x,y]", a dict as "{k:v,x:y}". The lists a body iterates over
\* (data, users, agents, owners, query_embedding) are sequences.

\* bool(x) is False.
Falsy(x) == x \in {None, "false", "", "[]", "{}", "0"}

\* x or y
Or(x, y) == IF Falsy(x) THEN y ELSE x

\* The list texts of the model, and [x] for a value x that is not a list.
Lists == {"[]", "[i]", "[i,j]", "[t]"}
ListOf(x) == "[" \o x \o "]"

\* isinstance(x, list)
IsList(x) == x \in Lists

\* The key/value pairs of a dict text (the dict texts of the model).
Pairs(d) ==
    CASE d = "{}" -> {}
      [] d = "{k:v}" -> {<<"k", "v">>}
      [] d = "{x:y}" -> {<<"x", "y">>}
      [] d = "{k:v,x:y}" -> {<<"k", "v">>, <<"x", "y">>}
      [] d = "{k:w}" -> {<<"k", "w">>}

\* a @> b of jsonb, for dicts of scalars: a has every pair of b.
Contains(a, b) == Pairs(b) \subseteq Pairs(a)

\* The objects of the requests that are pydantic models (an agent's default
\* settings, a session's recall options), and what model_dump() returns for
\* each: the dict of its fields.
DefaultSettings == "DefaultSettings(temperature=0.7)"
RecallOptions == "RecallOptions(mode=hybrid)"
model_dump(x) ==
    CASE x = DefaultSettings -> "{temperature:0.7}"
      [] x = RecallOptions -> "{mode:hybrid}"

\* A direction is written as the sequence of its characters, each a string of
\* one character: 'asc' is <<"a", "s", "c">>.
asc == <<"a", "s", "c">>
desc == <<"d", "e", "s", "c">>

\* The small letter of each capital letter.
Small ==
    ("A" :> "a") @@ ("B" :> "b") @@ ("C" :> "c") @@ ("D" :> "d") @@
    ("E" :> "e") @@ ("F" :> "f") @@ ("G" :> "g") @@ ("H" :> "h") @@
    ("I" :> "i") @@ ("J" :> "j") @@ ("K" :> "k") @@ ("L" :> "l") @@
    ("M" :> "m") @@ ("N" :> "n") @@ ("O" :> "o") @@ ("P" :> "p") @@
    ("Q" :> "q") @@ ("R" :> "r") @@ ("S" :> "s") @@ ("T" :> "t") @@
    ("U" :> "u") @@ ("V" :> "v") @@ ("W" :> "w") @@ ("X" :> "x") @@
    ("Y" :> "y") @@ ("Z" :> "z")

\* str.lower(): every capital letter replaced by its small one, every other
\* character kept.
Lower(x) == [i \in 1..Len(x) |-> IF x[i] \in DOMAIN Small THEN Small[x[i]] ELSE x[i]]

\* ------------------------------------------------------------ identifiers
\* "d1" exists in the store from the start, "d0" does not.
DevIds == {"d0", "d1"}
\* An abstract timestamp (created_at, updated_at columns).
T0 == "t0"

\* --------------------------------------------------------------- helpers
\* {**f, **g} of Python: the keys of both, g's value where both have one.
DictMerge(f, g) == g @@ f

\* d without key k (what is left of d after d.pop(k)).
DictDrop(d, k) == [c \in (DOMAIN d) \ {k} |-> d[c]]

\* [f(x) for x in s]
RECURSIVE Flatten(_)
Flatten(ss) == IF ss = <<>> THEN <<>> ELSE Head(ss) \o Flatten(Tail(ss))

\* ["user"] * n
Repeat(x, n) == [k \in 1..n |-> x]

\* ------------------------------------------------------ domain operations
Ops == {"create_developer", "create_or_update_user", "patch_user",
        "create_or_update_agent", "list_agents", "create_session",
        "patch_session", "create_entries", "add_entry_relations",
        "search_docs_by_embedding"}

\* partialclass(HTTPException, status_code=..., detail=...)
Http(status, detail) == [type |-> "HTTPException", status_code |-> status, detail |-> detail]

\* The store error of class c, as the driver raises it.
StoreError(c) == [type |-> "store", class |-> c]

\* The closed taxonomy of store error classes, plus the classes no mapping names.
MappedClasses == {"ForeignKeyViolationError", "UniqueViolationError",
                  "CheckViolationError", "DataError",
                  "NotNullViolationError", "NoDataFoundError"}
ErrorClasses == MappedClasses \cup {"PostgresSyntaxError", "InterfaceError"}

\* The Error Mapping each Domain Operation declares with @rewrap_exceptions:
\* store error class -> the HTTPException raised in its place.
errors_create_developer ==
    ("UniqueViolationError" :> Http(404, "The specified developer does not exist."))

errors_create_or_update_user ==
    ("ForeignKeyViolationError" :> Http(404, "The specified developer does not exist.")) @@
    ("UniqueViolationError" :> Http(409, "A user with this ID already exists."))

errors_patch_user ==
    ("ForeignKeyViolationError" :> Http(404, "The specified developer does not exist.")) @@
    ("UniqueViolationError" :> Http(409, "A user with this ID already exists for the specified developer."))

\* errors_create_or_update_agent with the duplicate reported as a missing
\* developer, as create_developer's mapping does.
errors_create_or_update_agent_unique_404 ==
    ("ForeignKeyViolationError" :> Http(404, "The specified developer does not exist.")) @@
    ("UniqueViolationError" :> Http(404, "The specified developer does not exist.")) @@
    ("CheckViolationError" :> Http(400, "The provided data violates one or more constraints. Please check the input values.")) @@
    ("DataError" :> Http(400, "Invalid data provided. Please check the input values."))

errors_create_or_update_agent ==
    ("ForeignKeyViolationError" :> Http(404, "The specified developer does not exist.")) @@
    ("UniqueViolationError" :> Http(409, "An agent with this canonical name already exists for this developer.")) @@
    ("CheckViolationError" :> Http(400, "The provided data violates one or more constraints. Please check the input values.")) @@
    ("DataError" :> Http(400, "Invalid data provided. Please check the input values."))

errors_list_agents ==
    ("ForeignKeyViolationError" :> Http(404, "The specified developer does not exist.")) @@
    ("DataError" :> Http(400, "Invalid data provided. Please check the input values."))

errors_create_session ==
    ("ForeignKeyViolationError" :> Http(404, "The specified developer or participant does not exist.")) @@
    ("UniqueViolationError" :> Http(409, "A session with this ID already exists."))

errors_patch_session ==
    ("ForeignKeyViolationError" :> Http(404, "The specified developer or session does not exist.")) @@
    ("NoDataFoundError" :> Http(404, "Session not found")) @@
    ("CheckViolationError" :> Http(400, "Invalid session data provided."))

\* errors_create_entries without its UniqueViolationError entry.
errors_create_entries_no_unique ==
    ("ForeignKeyViolationError" :> Http(404, "Session not found")) @@
    ("NotNullViolationError" :> Http(400, "Not null violation")) @@
    ("NoDataFoundError" :> Http(404, "Session not found"))

\* errors_create_entries without its NoDataFoundError entry.
errors_create_entries_no_nodata ==
    ("ForeignKeyViolationError" :> Http(404, "Session not found")) @@
    ("UniqueViolationError" :> Http(409, "Entry already exists")) @@
    ("NotNullViolationError" :> Http(400, "Not null violation"))

errors_create_entries ==
    ("ForeignKeyViolationError" :> Http(404, "Session not found")) @@
    ("UniqueViolationError" :> Http(409, "Entry already exists")) @@
    ("NotNullViolationError" :> Http(400, "Not null violation")) @@
    ("NoDataFoundError" :> Http(404, "Session not found"))

errors_add_entry_relations ==
    ("ForeignKeyViolationError" :> Http(404, "Session not found")) @@
    ("UniqueViolationError" :> Http(409, "Entry already exists")) @@
    ("NoDataFoundError" :> Http(404, "Session not found"))

errors_search_docs_by_embedding ==
    ("UniqueViolationError" :> Http(404, "The specified developer does not exist."))

ErrorMapping(op) ==
    CASE op = "create_developer" -> errors_create_developer
      [] op = "create_or_update_user" -> errors_create_or_update_user
      [] op = "patch_user" -> errors_patch_user
      [] op = "create_or_update_agent" -> errors_create_or_update_agent
      [] op = "list_agents" -> errors_list_agents
      [] op = "create_session" -> errors_create_session
      [] op = "patch_session" -> errors_patch_session
      [] op = "create_entries" -> errors_create_entries
      [] op = "add_entry_relations" -> errors_add_entry_relations
      [] op = "search_docs_by_embedding" -> errors_search_docs_by_embedding

\* wrap_in_class(cls, ...): the target record shape.
TargetClass(op) ==
    CASE op = "create_developer" -> "ResourceCreatedResponse"
      [] op = "create_or_update_user" -> "User"
      [] op = "patch_user" -> "ResourceUpdatedResponse"
      [] op = "create_or_update_agent" -> "Agent"
      [] op = "list_agents" -> "Agent"
      [] op = "create_session" -> "Session"
      [] op = "patch_session" -> "ResourceUpdatedResponse"
      [] op = "create_entries" -> "Entry"
      [] op = "add_entry_relations" -> "Relation"
      [] op = "search_docs_by_embedding" -> "DocReference"

\* One with patch_user's one=True left out.
One_without_patch_user(op) ==
    op \in {"create_developer", "create_or_update_agent", "create_session", "patch_session"}

\* wrap_in_class(..., one=True): the operations that declare a single record.
One(op) == op \in {"create_developer", "patch_user", "create_or_update_agent",
                   "create_session", "patch_session"}

\* wrap_in_class(..., transform=...): what each operation's lambda makes of row
\* d, [out |-> the transformed row, row |-> d as the lambda leaves it].
transform_create_developer(d) ==
    [out |-> DictMerge(d, ("id" :> d["developer_id"]) @@ ("created_at" :> d["created_at"])),
     row |-> d]

transform_agent(d) ==
    [out |-> DictMerge("id" :> d["agent_id"], d), row |-> d]

transform_create_session(d) ==
    [out |-> DictMerge(d, "id" :> d["session_id"]), row |-> d]

transform_patch_session(d) ==
    [out |-> ("id" :> d["session_id"]) @@ ("updated_at" :> d["updated_at"]), row |-> d]

\* transform_create_entries reading entry_id instead of popping it.
transform_create_entries_keeps_entry_id(d) ==
    [out |-> DictMerge("id" :> d["entry_id"], d), row |-> d]

\* {"id": d.pop("entry_id"), **d}: the pop takes entry_id out of d itself.
transform_create_entries(d) ==
    [out |-> DictMerge("id" :> d["entry_id"], DictDrop(d, "entry_id")),
     row |-> DictDrop(d, "entry_id")]

transform_search_docs_by_embedding(d) ==
    [out |-> DictMerge(("owner" :> [id |-> d["owner_id"], role |-> d["owner_type"]]) @@
                       ("metadata" :> IF "metadata" \in DOMAIN d THEN d["metadata"] ELSE "{}"),
                       d),
     row |-> d]

\* transform or (lambda x: x)
Transform(op, d) ==
    CASE op = "create_developer" -> transform_create_developer(d)
      [] op \in {"create_or_update_agent", "list_agents"} -> transform_agent(d)
      [] op = "create_session" -> transform_create_session(d)
      [] op = "patch_session" -> transform_patch_session(d)
      [] op = "create_entries" -> transform_create_entries(d)
      [] op = "search_docs_by_embedding" -> transform_search_docs_by_embedding(d)
      [] OTHER -> [out |-> d, row |-> d]

\* @increase_counter(name): the counter label, None where the operation has none.
CounterName(op) ==
    IF op \in {"create_or_update_user", "patch_user", "create_or_update_agent",
               "create_session", "patch_session", "create_entries",
               "add_entry_relations"}
    THEN op ELSE None

\* pg_query's return_index when the operation passes none: the last statement.
DefaultReturnIndex == -1

\* @pg_query(return_index=...): the index of the authoritative statement.
ReturnIndex(op) == IF op = "create_session" THEN 0 ELSE DefaultReturnIndex


\* ------------------------------------------------------------- SQL texts
\* The statements the operations send, named by module and constant.
\* A statement is [sql, inline, params, mode]: inline is the text spliced into
\* the SQL before it is sent (list_agents' metadata_filter_query,
\* search_docs_by_embedding's $UUID_LIST), params one parameter list, or a
\* list of parameter lists when mode is "fetchmany".
Stmt(sql, inline, params, mode) == [sql |-> sql, inline |-> inline, params |-> params, mode |-> mode]

\* The highest positional placeholder $n of the SQL text as sent.
Placeholders(stmt) ==
    CASE stmt.sql = "create_developer.developer_query" -> 5
      [] stmt.sql = "create_or_update_user.query" -> 5
      [] stmt.sql = "patch_user.user_query" -> 5
      [] stmt.sql = "create_or_update_agent.agent_query" -> 9
      [] stmt.sql = "list_agents.raw_query" -> IF stmt.inline = <<>> THEN 5 ELSE 6
      [] stmt.sql = "create_session.session_query" -> 10
      [] stmt.sql = "create_session.lookup_query" -> 4
      [] stmt.sql = "patch_session.session_query" -> 10
      [] stmt.sql = "create_entries.session_exists_query" -> 2
      [] stmt.sql = "create_entries.entry_query" -> 14
      [] stmt.sql = "create_entries.entry_relation_query" -> 5
      [] stmt.sql = "search_docs_by_embedding.search_docs_by_embedding_query" -> 6

\* Whether the store can parse the text: entry_relation_query ends its column
\* list with a comma ("tail,\n) VALUES"), which is a syntax error.
WellFormed(stmt) == stmt.sql # "create_entries.entry_relation_query"

\* ------------------------------------------------------------ the store
\* A database state: one set of rows (their keys) per table.
EmptyDB == [developers |-> {}, users |-> {}, agents |-> {}, sessions |-> {},
            session_lookup |-> {}, entries |-> {}]

InitStore == [EmptyDB EXCEPT !.developers = {"d1"},
                             !.users = {<<"d1", "u1">>},
                             !.agents = {[developer_id |-> "d1", agent_id |-> "a1",
                                          canonical_name |-> "n1", metadata |-> "{k:v,x:y}",
                                          created_at |-> 0, updated_at |-> 0]}]

\* The documents search_by_vector ranks, nearest first (no operation here writes them).
Docs == << [id |-> "doc1", developer_id |-> "d1", owner_type |-> "user", owner_id |-> "u1"],
           [id |-> "doc2", developer_id |-> "d1", owner_type |-> "agent", owner_id |-> "a1"] >>

Tables == DOMAIN EmptyDB

\* What a transaction sees: the committed rows and its own writes.
DBMerge(a, b) == [t \in Tables |-> a[t] \cup b[t]]

\* Whether rows r and s of table t violate one of t's unique constraints together.
Conflicts(t, r, s) ==
    IF t = "agents"
    THEN r.developer_id = s.developer_id
         /\ (r.agent_id = s.agent_id \/ r.canonical_name = s.canonical_name)
    ELSE r = s

NoInsert == [table |-> None, row |-> None]

\* The row an INSERT statement adds for parameter list p.
InsertOf(stmt, p) ==
    CASE stmt.sql = "create_developer.developer_query" ->
           [table |-> "developers", row |-> p[1]]
      [] stmt.sql = "create_or_update_user.query" ->
           [table |-> "users", row |-> <<p[1], p[2]>>]
      [] stmt.sql = "create_or_update_agent.agent_query" ->
           [table |-> "agents",
            \* created_at and updated_at default to the time of the insert,
            \* which is after that of the rows the store starts with
            row |-> [developer_id |-> p[1], agent_id |-> p[2],
                     canonical_name |-> p[3], metadata |-> p[8],
                     created_at |-> 1, updated_at |-> 1]]
      [] stmt.sql = "create_session.session_query" ->
           [table |-> "sessions", row |-> <<p[1], p[2]>>]
      [] stmt.sql = "create_session.lookup_query" ->
           [table |-> "session_lookup", row |-> <<p[1], p[2], p[3], p[4]>>]
      [] stmt.sql = "create_entries.entry_query" ->
           [table |-> "entries", row |-> <<p[1], p[2]>>]
      [] OTHER -> NoInsert

\* ON CONFLICT ... DO UPDATE: the insert that overwrites instead of failing.
IsUpsert(stmt) == stmt.sql = "create_or_update_user.query"

\* Whether the row the INSERT references exists (the table's foreign keys).
ParentExists(stmt, p, view) ==
    CASE stmt.sql \in {"create_or_update_user.query", "create_or_update_agent.agent_query",
                       "create_session.session_query"} ->
           p[1] \in view.developers
      [] stmt.sql = "create_session.lookup_query" ->
           <<p[1], p[2]>> \in view.sessions
      [] stmt.sql = "create_entries.entry_query" ->
           \E s \in view.sessions : s[2] = p[1]
      [] OTHER -> TRUE

\* s[from..] limited to n elements (OFFSET from-1 LIMIT n).
Page(s, offset, limit) ==
    SubSeq(s, offset + 1, IF Len(s) < offset + limit THEN Len(s) ELSE offset + limit)

\* The elements of sequence s that satisfy Keep, in order.
RECURSIVE SelectWhere(_, _)
SelectWhere(s, keep) ==
    IF s = <<>> THEN <<>>
    ELSE (IF Head(s) \in keep THEN <<Head(s)>> ELSE <<>>) \o SelectWhere(Tail(s), keep)

\* The orders in which the rows of set S can be listed.
Perms(S) ==
    {s \in [1..Cardinality(S) -> S] : \A i, j \in 1..Cardinality(S) : i # j => s[i] # s[j]}

\* ORDER BY of list_agents.raw_query: of the four CASE terms the one whose
\* sort_by ($4) and direction ($5) match orders the rows by that column; when
\* none matches every term is NULL and the order is the engine's. Rows with
\* equal keys come in any order.
Ordered(s, sort_by, direction) ==
    (sort_by \in {"created_at", "updated_at"} /\ direction \in {asc, desc}) =>
        \A i, j \in 1..Len(s) : i < j =>
            IF direction = asc THEN s[i][sort_by] <= s[j][sort_by]
            ELSE s[i][sort_by] >= s[j][sort_by]

\* The row sequences a statement may return for parameter list p on database
\* view: one, except where the statement leaves the order of the rows open.
RowsOf(stmt, p, view) ==
    CASE stmt.sql = "create_developer.developer_query" ->
           { << [developer_id |-> p[1], email |-> p[2], created_at |-> T0] >> }
      [] stmt.sql = "create_or_update_user.query" ->
           { << [developer_id |-> p[1], user_id |-> p[2], name |-> p[3]] >> }
      [] stmt.sql = "patch_user.user_query" ->
           IF <<p[1], p[2]>> \in view.users
           THEN { << [id |-> p[2], developer_id |-> p[1], updated_at |-> T0] >> }
           ELSE { <<>> }
      [] stmt.sql = "create_or_update_agent.agent_query" ->
           { << InsertOf(stmt, p).row >> }
      [] stmt.sql = "list_agents.raw_query" ->
           LET mine == {a \in view.agents :
                          /\ a.developer_id = p[1]
                          /\ (stmt.inline # <<>> => Contains(a.metadata, p[6]))}
           IN {Page(s, p[3], p[2]) : s \in {o \in Perms(mine) : Ordered(o, p[4], p[5])}}
      [] stmt.sql = "create_session.session_query" ->
           { << [developer_id |-> p[1], session_id |-> p[2], situation |-> p[3]] >> }
      [] stmt.sql = "patch_session.session_query" ->
           IF <<p[1], p[2]>> \in view.sessions
           THEN { << [developer_id |-> p[1], session_id |-> p[2], updated_at |-> T0] >> }
           ELSE { <<>> }
      [] stmt.sql = "create_entries.session_exists_query" ->
           { << [exists |-> <<p[2], p[1]>> \in view.sessions] >> }
      [] stmt.sql = "create_entries.entry_query" ->
           { << [session_id |-> p[1], entry_id |-> p[2], role |-> p[4]] >> }
      [] stmt.sql = "search_docs_by_embedding.search_docs_by_embedding_query" ->
           LET owned == {k \in 1..Len(Docs) :
                           /\ Docs[k].developer_id = p[1]
                           /\ \E o \in 1..Len(p[3]) :
                                /\ p[3][o] = Docs[k].owner_type
                                /\ stmt.inline[o] = Docs[k].owner_id}
               hits == SelectWhere([k \in 1..Len(Docs) |-> k], owned)
               top == Page(hits, 0, p[4])
           IN { [k \in 1..Len(top) |-> Docs[top[k]]] }
      [] OTHER -> { <<>> }

\* Whether a statement reads the request's values (the existence check takes
\* two UUIDs only, the lookup insert identifiers only).
ReadsData(stmt) ==
    stmt.sql \notin {"create_entries.session_exists_query", "create_session.lookup_query"}

\* One round trip: statement stmt with parameter list p against database view;
\* fault is the class the values sent make the store raise, or None.
\* The possible answers, each [err |-> the store error class or None,
\* rows |-> the rows returned, ins |-> the row inserted or NoInsert].
ExecOne(stmt, p, view, fault) ==
    LET fail(c) == {[err |-> c, rows |-> <<>>, ins |-> NoInsert]}
        ins == InsertOf(stmt, p)
    IN IF ~WellFormed(stmt) THEN fail("PostgresSyntaxError")
       ELSE IF Len(p) # Placeholders(stmt) THEN fail("InterfaceError")
       ELSE IF stmt.sql = "search_docs_by_embedding.search_docs_by_embedding_query"
               /\ \E o \in 1..Len(stmt.inline) : stmt.inline[o] = ""
            THEN fail("DataError")
       ELSE IF fault # None /\ ReadsData(stmt) THEN fail(fault)
       ELSE IF ins.table = None
            THEN {[err |-> None, rows |-> rs, ins |-> NoInsert] : rs \in RowsOf(stmt, p, view)}
       ELSE IF ~IsUpsert(stmt) /\ \E r \in view[ins.table] : Conflicts(ins.table, ins.row, r)
            THEN fail("UniqueViolationError")
       ELSE IF ~ParentExists(stmt, p, view) THEN fail("ForeignKeyViolationError")
       ELSE {[err |-> None, rows |-> rs, ins |-> ins] : rs \in RowsOf(stmt, p, view)}

\* ------------------------------------------------- the operations' bodies
\* uuid7(): the n-th identifier the library makes; no two are equal.
uuid7(n) == "uuid7-" \o ToString(n)

\* A request r carries, besides the arguments of the call, uuid7_calls: how
\* many identifiers uuid7() had made before the call.
WithCalls(r, n) ==
    [k \in DOMAIN r \cup {"uuid7_calls"} |-> IF k = "uuid7_calls" THEN n ELSE r[k]]

\* x or uuid7(), for the first call of a body.
OrUuid7(r, x) == Or(x, uuid7(r.uuid7_calls + 1))

\* What a body does: raise |-> the exception it raises or None,
\* queries |-> the statements it returns, uuid7_calls |-> how many
\* identifiers it had uuid7() make.
NoError == [type |-> "none"]
Raise(e) == [raise |-> e, queries |-> <<>>, uuid7_calls |-> 0]
Return(qs) == [raise |-> NoError, queries |-> qs, uuid7_calls |-> 0]
\* Body result b of a body that called uuid7() n times.
Made(b, n) == [b EXCEPT !.uuid7_calls = n]

\* 1 where `x or uuid7()` makes the call, 0 where it does not.
Calls(x) == IF Falsy(x) THEN 1 ELSE 0

create_developer(r) ==
    LET developer_id == OrUuid7(r, r.developer_id)
    IN Made(Return(<< Stmt("create_developer.developer_query", <<>>,
                           <<developer_id, r.email, r.active, Or(r.tags, "[]"),
                             Or(r.settings, "{}")>>,
                           "fetch") >>),
            Calls(r.developer_id))

create_or_update_user(r) ==
    Return(<< Stmt("create_or_update_user.query", <<>>,
                   <<r.developer_id, r.user_id, r.data.name, r.data.about, r.data.metadata>>,
                   "fetch") >>)

patch_user(r) ==
    Return(<< Stmt("patch_user.user_query", <<>>,
                   <<r.developer_id, r.user_id, r.data.name, r.data.about, r.data.metadata>>,
                   "fetch") >>)

\* The request's data as create_or_update_agent leaves it: the body assigns
\* data.instructions, data.metadata and data.canonical_name.
create_or_update_agent_data(r) ==
    [r.data EXCEPT
       !.instructions = IF IsList(@) THEN @ ELSE ListOf(@),
       !.metadata = Or(@, "{}"),
       \* generate_canonical_name(data.name): the name generated for a given
       \* data.name is written as that name
       !.canonical_name = Or(@, r.data.name)]

create_or_update_agent(r) ==
    LET data == create_or_update_agent_data(r)
        default_settings == IF ~Falsy(r.data.default_settings)
                            THEN model_dump(r.data.default_settings) ELSE "{}"
    IN Return(<< Stmt("create_or_update_agent.agent_query", <<>>,
                      <<r.developer_id, r.agent_id, data.canonical_name, data.name,
                        data.about, data.instructions, data.model,
                        data.metadata, default_settings>>,
                      "fetch") >>)

list_agents(r) ==
    IF Lower(r.direction) \notin {asc, desc}
    THEN Raise(Http(400, "Invalid sort direction"))
    ELSE LET filtered == ~Falsy(r.metadata_filter)
         IN Return(<< Stmt("list_agents.raw_query",
                           IF filtered THEN <<"AND metadata @> $6::jsonb">> ELSE <<>>,
                           <<r.developer_id, r.limit, r.offset, r.sort_by, r.direction>>
                             \o (IF filtered THEN <<r.metadata_filter>> ELSE <<>>),
                           "fetch") >>)

\* data.users or ([data.user] if data.user else [])
session_users(data) ==
    IF data.users # <<>> THEN data.users
    ELSE IF ~Falsy(data.user) THEN <<data.user>> ELSE <<>>

\* data.agents or ([data.agent] if data.agent else [])
session_agents(data) ==
    IF data.agents # <<>> THEN data.agents
    ELSE IF ~Falsy(data.agent) THEN <<data.agent>> ELSE <<>>

\* session_queries with the agents' lookup rows before the users'.
session_queries_agents_first(r, users, agents) ==
    LET data == r.data
        session_id == OrUuid7(r, r.session_id)
        participant_types == Repeat("agent", Len(agents)) \o Repeat("user", Len(users))
        participant_ids == agents \o users
        session_params == <<r.developer_id, session_id, data.situation, data.system_template,
                            Or(data.metadata, "{}"), data.render_templates,
                            data.token_budget, data.context_overflow,
                            data.forward_tool_calls, Or(data.recall_options, "{}")>>
        lookup_params == [k \in 1..Len(participant_ids) |->
                            <<r.developer_id, session_id, participant_types[k],
                              participant_ids[k]>>]
    IN Return(<< Stmt("create_session.session_query", <<>>, session_params, "fetch"),
                 Stmt("create_session.lookup_query", <<>>, lookup_params, "fetchmany") >>)

\* The two statements create_session returns for the participants given.
session_queries(r, users, agents) ==
    LET data == r.data
        session_id == OrUuid7(r, r.session_id)
        participant_types == Repeat("user", Len(users)) \o Repeat("agent", Len(agents))
        participant_ids == users \o agents
        session_params == <<r.developer_id, session_id, data.situation, data.system_template,
                            Or(data.metadata, "{}"), data.render_templates,
                            data.token_budget, data.context_overflow,
                            data.forward_tool_calls, Or(data.recall_options, "{}")>>
        lookup_params == [k \in 1..Len(participant_ids) |->
                            <<r.developer_id, session_id, participant_types[k],
                              participant_ids[k]>>]
    IN Return(<< Stmt("create_session.session_query", <<>>, session_params, "fetch"),
                 Stmt("create_session.lookup_query", <<>>, lookup_params, "fetchmany") >>)

\* create_session without the check that only one of agent and agents is given.
create_session_unchecked(r) ==
    Made(IF session_agents(r.data) = <<>>
         THEN Raise(Http(400, "At least one agent must be provided"))
         ELSE session_queries(r, session_users(r.data), session_agents(r.data)),
         Calls(r.session_id))

\* create_session building the lookup parameters from the agents alone.
create_session_agents_only(r) ==
    Made(IF session_agents(r.data) = <<>>
         THEN Raise(Http(400, "At least one agent must be provided"))
         ELSE IF ~Falsy(r.data.agent) /\ r.data.agents # <<>>
         THEN Raise(Http(400, "Only one of 'agent' or 'agents' should be provided"))
         ELSE session_queries(r, <<>>, session_agents(r.data)),
         Calls(r.session_id))

\* session_id = session_id or uuid7() stands before the two checks: the
\* identifier is made whether or not the request is then refused.
create_session(r) ==
    Made(IF session_agents(r.data) = <<>>
         THEN Raise(Http(400, "At least one agent must be provided"))
         ELSE IF ~Falsy(r.data.agent) /\ r.data.agents # <<>>
         THEN Raise(Http(400, "Only one of 'agent' or 'agents' should be provided"))
         ELSE session_queries(r, session_users(r.data), session_agents(r.data)),
         Calls(r.session_id))

patch_session(r) ==
    LET data == r.data
    IN Return(<< Stmt("patch_session.session_query", <<>>,
                      <<r.developer_id, r.session_id, data.situation, data.system_template,
                        Or(data.metadata, "{}"), data.render_templates,
                        data.token_budget, data.context_overflow,
                        data.forward_tool_calls,
                        IF ~Falsy(data.recall_options)
                        THEN model_dump(data.recall_options) ELSE "{}">>,
                      "fetch") >>)

\* How many of the first k entries have no id of their own: the calls of
\* uuid7() made up to entry k.
MissingIds(data, k) == Cardinality({j \in 1..k : Falsy(data[j].id)})

create_entries(r) ==
    LET params == [k \in 1..Len(r.data) |->
                     LET item == r.data[k]
                     IN <<r.session_id,
                          Or(item.id, uuid7(r.uuid7_calls + MissingIds(r.data, k))),
                          item.source, item.role,
                          Or(item.event_type, "message.create"),
                          item.name, Or(item.content, "{}"), item.tool_call_id,
                          Or(item.tool_calls, "{}"), item.model, item.token_count,
                          "tokenizer",
                          \* utcnow() and utcnow().timestamp()
                          Or(item.created_at, T0), [timestamp |-> T0]>>]
    IN Made(Return(<< Stmt("create_entries.session_exists_query", <<>>,
                           <<r.session_id, r.developer_id>>, "fetchrow"),
                      Stmt("create_entries.entry_query", <<>>, params, "fetchmany") >>),
            MissingIds(r.data, Len(r.data)))

add_entry_relations(r) ==
    LET params == [k \in 1..Len(r.data) |->
                     LET item == r.data[k]
                     IN <<item.session_id, item.head, item.relation, item.tail>>]
    IN Return(<< Stmt("create_entries.session_exists_query", <<>>,
                      <<r.session_id, r.developer_id>>, "fetchrow"),
                 Stmt("create_entries.entry_relation_query", <<>>, params, "fetchmany") >>)

search_docs_by_embedding(r) ==
    LET owner_types == [k \in 1..Len(r.owners) |-> r.owners[k][1]]
        owner_ids == [k \in 1..Len(r.owners) |-> r.owners[k][2]]
        \* "ARRAY['" + "', '".join(owner_ids) + "']": one empty string for no owner
        owner_ids_pg == IF owner_ids = <<>> THEN <<"">> ELSE owner_ids
    IN IF r.k < 1
       THEN Raise(Http(400, "k must be >= 1"))
       ELSE IF r.query_embedding = <<>>
       THEN Raise(Http(400, "Empty embedding provided"))
       ELSE Return(<< Stmt("search_docs_by_embedding.search_docs_by_embedding_query",
                           owner_ids_pg,
                           <<r.developer_id, [str |-> r.query_embedding], owner_types,
                             r.k, r.confidence, r.metadata_filter>>,
                           "fetch") >>)

\* The body of operation op applied to request r.
Body(op, r) ==
    CASE op = "create_developer" -> create_developer(r)
      [] op = "create_or_update_user" -> create_or_update_user(r)
      [] op = "patch_user" -> patch_user(r)
      [] op = "create_or_update_agent" -> create_or_update_agent(r)
      [] op = "list_agents" -> list_agents(r)
      [] op = "create_session" -> create_session(r)
      [] op = "patch_session" -> patch_session(r)
      [] op = "create_entries" -> create_entries(r)
      [] op = "add_entry_relations" -> add_entry_relations(r)
      [] op = "search_docs_by_embedding" -> search_docs_by_embedding(r)

\* @beartype: a call whose arguments are not of the annotated types is refused
\* before the body runs (of the arguments the requests vary, list_agents'
\* sort_by and direction are Literal types).
WellTyped(op, r) ==
    op = "list_agents" =>
        r.sort_by \in {"created_at", "updated_at"} /\ r.direction \in {asc, desc}

BeartypeViolation == [type |-> "BeartypeCallHintParamViolation"]

\* The types of the return annotations, each the set of the kinds of value it
\* admits; the kind of a str that names a fetch method is that name.
FetchMethods == {"fetch", "fetchmany", "fetchrow"}
TStr == {"str"} \cup FetchMethods

\* The return annotation of each body: tuple[...] or list[...], and the item
\* types of the tuples it admits.
returns(op) ==
    CASE op = "create_or_update_user" ->
           [outer |-> "tuple", of |-> {<<TStr, {"dict"}>>}]
      [] op \in {"create_developer", "patch_user", "create_or_update_agent", "list_agents",
                 "search_docs_by_embedding"} ->
           [outer |-> "tuple", of |-> {<<TStr, {"list"}>>}]
      [] op = "create_session" ->
           [outer |-> "list", of |-> {<<TStr, {"list"}>>, <<TStr, {"list"}, TStr>>}]
      [] op = "patch_session" ->
           [outer |-> "list", of |-> {<<TStr, {"list"}>>}]
      [] op \in {"create_entries", "add_entry_relations"} ->
           [outer |-> "list", of |-> {<<TStr, {"list"}, FetchMethods>>}]

\* What the return statement of each body builds: one tuple or a list of
\* tuples, and the kinds of the items of each tuple.
ReturnValue(op) ==
    CASE op \in {"create_developer", "create_or_update_user", "patch_user",
                 "create_or_update_agent", "list_agents", "search_docs_by_embedding"} ->
           [outer |-> "tuple", items |-> << <<"str", "list">> >>]
      [] op = "create_session" ->
           [outer |-> "list", items |-> << <<"str", "list", "fetch">>,
                                           <<"str", "list", "fetchmany">> >>]
      [] op = "patch_session" ->
           [outer |-> "list", items |-> << <<"str", "list">> >>]
      [] op \in {"create_entries", "add_entry_relations"} ->
           [outer |-> "list", items |-> << <<"str", "list", "fetchrow">>,
                                           <<"str", "list", "fetchmany">> >>]

\* Value v is of annotation a: the same container, and every tuple is one the
\* annotation admits, item by item.
Conforms(v, a) ==
    /\ v.outer = a.outer
    /\ \A k \in 1..Len(v.items) :
          \E t \in a.of :
             /\ Len(t) = Len(v.items[k])
             /\ \A j \in 1..Len(t) : v.items[k][j] \in t[j]

BeartypeReturnViolation == [type |-> "BeartypeCallHintReturnViolation"]

\* The body under @beartype: the arguments are checked, the body runs, and
\* the value it returns is checked against the return annotation.
beartype(op, r) ==
    IF ~WellTyped(op, r) THEN Raise(BeartypeViolation)
    ELSE LET b == Body(op, r)
         IN IF b.raise.type = "none" /\ ~Conforms(ReturnValue(op), returns(op))
            THEN Made(Raise(BeartypeReturnViolation), b.uuid7_calls)
            ELSE b

\* ------------------------------------------------------------- requests
\* The requests the model sends to each operation.
SessionData(user, users, agent, agents) ==
    [user |-> user, users |-> users, agent |-> agent, agents |-> agents,
     situation |-> "situation", system_template |-> None, metadata |-> None,
     render_templates |-> "true", token_budget |-> None, context_overflow |-> None,
     forward_tool_calls |-> "false", recall_options |-> None]

EntryItem(id) ==
    [id |-> id, source |-> "api_request", role |-> "user", event_type |-> None,
     name |-> None, content |-> "{c}", tool_call_id |-> None, tool_calls |-> None,
     model |-> "m", token_count |-> None, created_at |-> None]

ValidRequests(op) ==
    CASE op = "create_developer" ->
           {[developer_id |-> x[1], email |-> "e", active |-> "true", tags |-> x[2],
             settings |-> None] : x \in {<<"d0", None>>, <<"d1", "[t]">>}}
      [] op = "create_or_update_user" ->
           {[developer_id |-> d, user_id |-> "u2",
             data |-> [name |-> "n", about |-> "", metadata |-> None]] : d \in DevIds}
      [] op = "patch_user" ->
           {[developer_id |-> "d1", user_id |-> u,
             data |-> [name |-> "n", about |-> None, metadata |-> None]] : u \in {"u1", "u9"}}
      [] op = "create_or_update_agent" ->
           {[developer_id |-> x[1], agent_id |-> x[2],
             data |-> [name |-> x[3], canonical_name |-> None, about |-> "",
                       instructions |-> x[4], model |-> "m", metadata |-> x[5],
                       default_settings |-> x[6]]] :
              x \in {<<"d1", "a1", "n1", "i", None, None>>,
                     <<"d1", "a2", "n2", "[i,j]", "{k:v}", DefaultSettings>>,
                     <<"d0", "a2", "n2", "i", None, None>>}}
      [] op = "list_agents" ->
           {[developer_id |-> "d1", limit |-> 100, offset |-> 0, sort_by |-> x[3],
             direction |-> x[1], metadata_filter |-> x[2]] :
              x \in {<<asc, "{}", "created_at">>, <<desc, "{}", "updated_at">>,
                     <<desc, "{k:v}", "created_at">>,
                     << <<"A", "S", "C">>, "{}", "created_at">>,
                     << <<"d", "E", "S", "C">>, "{}", "created_at">>}}
      [] op = "create_session" ->
           {[developer_id |-> "d1", session_id |-> "s1",
             data |-> SessionData(x[1], x[2], x[3], x[4])] :
              x \in {<<None, <<>>, None, <<>> >>,
                     <<None, <<>>, "a1", <<"a1">> >>,
                     <<None, <<>>, "a1", <<>> >>,
                     <<"u1", <<>>, None, <<"a1">> >>,
                     <<None, <<"u1", "u1">>, "a1", <<>> >>}}
           \cup {[developer_id |-> "d0", session_id |-> "s1",
                  data |-> SessionData(None, <<>>, "a1", <<>>)]}
      [] op = "patch_session" ->
           {[developer_id |-> "d1", session_id |-> "s1",
             data |-> [SessionData(None, <<>>, None, <<>>) EXCEPT
                         !.recall_options = RecallOptions]]}
      [] op = "create_entries" ->
           {[developer_id |-> "d1", session_id |-> "s1",
             data |-> [k \in 1..Len(ids) |-> EntryItem(ids[k])]] :
              ids \in {<<>>, <<"e1">>, <<"e1", "e2">>, <<"e1", "e1", "e2">>, <<None, None>>}}
      [] op = "add_entry_relations" ->
           {[developer_id |-> "d1", session_id |-> "s1",
             data |-> <<[session_id |-> "s1", head |-> "e1", relation |-> "r",
                         tail |-> "e2"]>>]}
      [] op = "search_docs_by_embedding" ->
           {[developer_id |-> "d1", query_embedding |-> x[1], k |-> x[2], owners |-> x[3],
             confidence |-> "0.5", metadata_filter |-> "{}"] :
              x \in {<< <<1>>, 0, << <<"user", "u1">> >> >>,
                     << <<>>, 1, << <<"user", "u1">> >> >>,
                     << <<1>>, 1, << <<"user", "u1">>, <<"agent", "a1">> >> >>,
                     << <<1>>, 2, << <<"user", "u1">>, <<"agent", "a1">> >> >>,
                     << <<1>>, 1, <<>> >>}}

\* The statements' values are not modelled; what is, is whether the store
\* accepts them: data_fault is the store error class the values of a request
\* provoke in the first statement that reads them, None when it accepts them.
WithFault(r, f) == [k \in DOMAIN r \cup {"data_fault"} |-> IF k = "data_fault" THEN f ELSE r[k]]

\* The store error classes the values sent to an operation can provoke: a
\* write can fail a check, a cast or a NOT NULL constraint, a read a cast.
DataFaults(op) ==
    IF op \in {"list_agents", "search_docs_by_embedding"} THEN {"DataError"}
    ELSE {"CheckViolationError", "DataError", "NotNullViolationError"}

Requests(op) ==
    {WithFault(r, None) : r \in ValidRequests(op)}
    \cup {WithFault(r, f) : r \in ValidRequests(op), f \in DataFaults(op)}

\* --------------------------------------------------- the four decorators
\* s[k] of Python: k from 0, negative k from the end.
PyIndex(s, k) == IF k < 0 THEN s[Len(s) + k + 1] ELSE s[k + 1]

\* The exception raised when the caller's task is cancelled.
CancelledError == [type |-> "CancelledError"]

\* rewrap_exceptions(mapping): the error raised in place of e.
rewrap_exceptions(mapping, e) ==
    IF e.type = "store" /\ e.class \in DOMAIN mapping THEN mapping[e.class] ELSE e

\* The record of class cls built from the transformed row.
Record(cls, fields) == [cls |-> cls, fields |-> fields]

\* wrap_in_class(cls, one, transform) applied to the rows of the authoritative
\* statement: [error |-> the domain error raised or NoError, value |-> the
\* record (one) or the sequence of records].
\* Assumed: every transformed row has the fields of its target class, so that
\* building the record never fails (the classes are not part of the source
\* modelled here).
wrap_in_class(op, rows) ==
    IF One(op)
    THEN IF Len(rows) = 0
         THEN [error |-> [type |-> "NotFound", status_code |-> 404], value |-> <<>>]
         ELSE IF Len(rows) > 1
         THEN [error |-> [type |-> "CardinalityError", status_code |-> 500], value |-> <<>>]
         ELSE [error |-> NoError,
               value |-> Record(TargetClass(op), Transform(op, rows[1]).out)]
    ELSE [error |-> NoError,
          value |-> [k \in 1..Len(rows) |->
                       Record(TargetClass(op), Transform(op, rows[k]).out)]]

\* The parameter lists a statement is executed with, one round trip each.
Items(stmt) == IF stmt.mode = "fetchmany" THEN stmt.params ELSE <<stmt.params>>

\* fetchrow: a statement that must yield one row, and a true one when the row
\* is the answer of an existence check.
MissingRow(stmt, rows) ==
    /\ stmt.mode = "fetchrow"
    /\ \/ Len(rows) = 0
       \/ "exists" \in DOMAIN rows[1] /\ rows[1]["exists"] = FALSE

\* ------------------------------------------------------------ the state
VARIABLES
    store,      \* the committed database
    pool,       \* the connections free in the pool
    counter,    \* the invocation counter, by label
    calls,      \* the number of invocations started so far
    pc,         \* where each invocation is
    op,         \* the operation each invocation runs
    req,        \* its request
    conn,       \* the connection it holds, 0 for none
    txn,        \* its transaction: "none", "open", "committed", "rolledback"
    si,         \* the index of the statement it executes next (from 1)
    bi,         \* the index of that statement's parameter list (from 1)
    acc,        \* the rows collected for the current statement
    results,    \* all_results: the rows of each statement finished
    writes,     \* the rows its open transaction has inserted
    executed,   \* the round trips it has made: statement, parameter list,
                \* and the connection and transaction state they were made on
    exc,        \* the exception propagating in it, NoError for none
    outcome,    \* what the caller receives
    acquired,   \* how many times it has checked a connection out
    released,   \* how many times it has released a connection
    cancelled,  \* whether its task was cancelled
    mat,        \* a materialization on its own: its input and its output
    life,       \* the application's lifespan: the containers' pools and clients
    built,      \* a plan built on its own: the request and what the body returns
    uuids       \* how many identifiers uuid7() has made

vars == <<store, pool, counter, calls, pc, op, req, conn, txn, si, bi, acc,
          results, writes, executed, exc, outcome, acquired, released, cancelled, mat,
          life, built, uuids>>

\* The variables of the pipeline, which a materialization on its own leaves alone.
pipeline == <<store, pool, counter, calls, pc, op, req, conn, txn, si, bi, acc,
              results, writes, executed, exc, outcome, acquired, released, cancelled>>

NoOutcome == [kind |-> "none"]
NoRequest == [none |-> TRUE]
CounterNames == {CounterName(o) : o \in Ops} \ {None}

NoMat == [state |-> "none"]

InitPipeline ==
    /\ store = InitStore
    /\ pool = Conns
    /\ counter = [n \in CounterNames |-> 0]
    /\ calls = 0
    /\ pc = [i \in Invs |-> "idle"]
    /\ op = [i \in Invs |-> None]
    /\ req = [i \in Invs |-> NoRequest]
    /\ conn = [i \in Invs |-> 0]
    /\ txn = [i \in Invs |-> "none"]
    /\ si = [i \in Invs |-> 1]
    /\ bi = [i \in Invs |-> 1]
    /\ acc = [i \in Invs |-> <<>>]
    /\ results = [i \in Invs |-> <<>>]
    /\ writes = [i \in Invs |-> EmptyDB]
    /\ executed = [i \in Invs |-> <<>>]
    /\ exc = [i \in Invs |-> NoError]
    /\ outcome = [i \in Invs |-> NoOutcome]
    /\ acquired = [i \in Invs |-> 0]
    /\ released = [i \in Invs |-> 0]
    /\ cancelled = [i \in Invs |-> FALSE]

\* ------------------------------------------------ the lifespan (app.py)
\* The containers passed to lifespan.
NumContainers == 2
\* How many times lifespan is entered in one behaviour.
MaxEntries == 2

Containers == 1..NumContainers
\* The entries of lifespan, each a coroutine of its own.
Entries == 1..MaxEntries

\* A pool or client: kind "pool" or "client", n the order of its creation
\* (0 for one the caller put into the state before lifespan is entered).
Object(kind, n) == [kind |-> kind, n |-> n]
\* None in a slot of container.state.
NoObject == Object("none", 0)

\* getattr(container.state, name, None), as a truth value.
Held(x) == x.kind # "none"

\* An entry that has not begun or has been left: phase is where the coroutine
\* stands, k the container its loop is at, target the object whose close() it
\* awaits, raised whether its body ended by an exception.
NoTask == [phase |-> "out", k |-> 1, target |-> NoObject, raised |-> FALSE]

\* The lifespan outside any entry, with the states given: made counts the
\* objects created, open are the objects not closed, closed the ones closed,
\* reclosed the ones closed again after that, last how the latest entry was
\* left ("closed": at the end of the finally block, "failed": by an exception
\* of the init code, "close_failed": by an exception of a close() in the
\* finally block), raised whether the body of the entry that last reached the
\* end of the finally block had ended by an exception.
LifeStart(state) ==
    [state |-> state, made |-> 0,
     open |-> ({state[c].postgres_pool : c \in Containers}
               \cup {state[c].s3_client : c \in Containers}) \ {NoObject},
     closed |-> {}, reclosed |-> {}, entries |-> 0, last |-> "none", raised |-> FALSE,
     task |-> [e \in Entries |-> NoTask]]

NoLife == LifeStart([c \in Containers |-> [postgres_pool |-> NoObject, s3_client |-> NoObject]])

\* One iteration of loop (a phase) over the containers is done by entry e: the
\* loop goes to the next container, or the code after the loop (phase after)
\* is reached; after the last loop lifespan is left.
LoopStep(l, e, loop, after) ==
    IF l.task[e].k < NumContainers
    THEN [l EXCEPT !.task[e].k = @ + 1, !.task[e].phase = loop]
    ELSE IF after = "out"
    THEN [l EXCEPT !.task[e] = NoTask, !.last = "closed", !.raised = l.task[e].raised]
    ELSE [l EXCEPT !.task[e].k = 1, !.task[e].phase = after]

\* if not getattr(container.state, "postgres_pool", None):
\*     ... await create_db_pool(pg_dsn)
\* The test, and the call the coroutine then waits in.
init_postgres(l, e) ==
    IF ~Held(l.state[l.task[e].k].postgres_pool)
    THEN [l EXCEPT !.task[e].phase = "await_pool"]
    ELSE LoopStep(l, e, "init_pg", "init_s3")

\* container.state.postgres_pool = <the pool create_db_pool returned>
set_postgres_pool(l, e) ==
    LoopStep([l EXCEPT !.state[l.task[e].k].postgres_pool = Object("pool", l.made + 1),
                       !.made = @ + 1,
                       !.open = @ \cup {Object("pool", l.made + 1)}],
             e, "init_pg", "init_s3")

\* if not getattr(container.state, "s3_client", None):
\*     session = get_session()
\*     ... await session.create_client(...).__aenter__()
init_s3(l, e) ==
    IF ~Held(l.state[l.task[e].k].s3_client)
    THEN [l EXCEPT !.task[e].phase = "await_client"]
    ELSE LoopStep(l, e, "init_s3", "body")

\* container.state.s3_client = <the client __aenter__ returned>
set_s3_client(l, e) ==
    LoopStep([l EXCEPT !.state[l.task[e].k].s3_client = Object("client", l.made + 1),
                       !.made = @ + 1,
                       !.open = @ \cup {Object("client", l.made + 1)}],
             e, "init_s3", "body")

\* create_db_pool or create_client raises: the init code is not inside the
\* try, so the exception leaves lifespan and the finally block does not run.
init_raises(l, e) == [l EXCEPT !.task[e] = NoTask, !.last = "failed"]

\* Object x has been closed: once, or once more.
Close(l, x) ==
    [l EXCEPT !.open = @ \ {x},
              !.closed = @ \cup {x},
              !.reclosed = IF x \in l.closed THEN @ \cup {x} ELSE @]

\* if getattr(container.state, "postgres_pool", None):
\*     await container.state.postgres_pool.close()
\* The test, and the call on the pool the slot holds.
close_postgres(l, e) ==
    IF Held(l.state[l.task[e].k].postgres_pool)
    THEN [l EXCEPT !.task[e].phase = "await_pool_close",
                   !.task[e].target = l.state[l.task[e].k].postgres_pool]
    ELSE LoopStep(l, e, "close_pg", "close_s3")

\* close() has returned;  container.state.postgres_pool = None
clear_postgres_pool(l, e) ==
    LoopStep([Close(l, l.task[e].target) EXCEPT
                !.task[e].target = NoObject,
                !.state[l.task[e].k].postgres_pool = NoObject],
             e, "close_pg", "close_s3")

\* if getattr(container.state, "s3_client", None):
\*     await container.state.s3_client.close()
close_s3(l, e) ==
    IF Held(l.state[l.task[e].k].s3_client)
    THEN [l EXCEPT !.task[e].phase = "await_client_close",
                   !.task[e].target = l.state[l.task[e].k].s3_client]
    ELSE LoopStep(l, e, "close_s3", "out")

\* close() has returned;  container.state.s3_client = None
clear_s3_client(l, e) ==
    LoopStep([Close(l, l.task[e].target) EXCEPT
                !.task[e].target = NoObject,
                !.state[l.task[e].k].s3_client = NoObject],
             e, "close_s3", "out")

\* The close() awaited in the finally block raises: the exception leaves the
\* finally block at once, so the slot keeps its object, the object is not
\* closed, and the iterations and the loop that would follow do not run.
close_raises(l, e) == [l EXCEPT !.task[e] = NoTask, !.last = "close_failed"]

\* No plan built on its own.
NoBuilt == [state |-> "none"]

Init == InitPipeline /\ mat = NoMat /\ life = NoLife /\ built = NoBuilt /\ uuids = 0

\* The plan invocation i executes.
Plan(i) == Body(op[i], req[i]).queries

\* What the caller of operation o receives when exception e leaves pg_query:
\* increase_counter and wrap_in_class let it pass, rewrap_exceptions maps it.
Failed(o, e) == [kind |-> "error", error |-> rewrap_exceptions(ErrorMapping(o), e)]

\* What the caller of operation o receives when pg_query returns rows:
\* wrap_in_class materializes them under rewrap_exceptions.
Succeeded(o, rows) ==
    LET m == wrap_in_class(o, rows)
    IN IF m.error.type = "none"
       THEN [kind |-> "ok", value |-> m.value]
       ELSE [kind |-> "error", error |-> rewrap_exceptions(ErrorMapping(o), m.error)]

\* The requests served concurrently: the operations that write several rows
\* in one plan (create_session with one participant, create_entries with
\* one entry and with three of which one is repeated).
ConcRequests(o) ==
    CASE o = "create_session" ->
           {r \in Requests(o) : /\ r.developer_id = "d1"
                                /\ r.data.agent = "a1" /\ r.data.agents = <<>>
                                /\ r.data.user = None /\ r.data.users = <<>>
                                /\ r.data_fault = None}
      [] o = "create_entries" ->
           {r \in Requests(o) : Len(r.data) \in {1, 3} /\ r.data_fault = None}
      [] OTHER -> {}

\* A request arrives: the body validates it and builds the plan.
Invoke(i, concurrent) ==
    /\ pc[i] = "idle"
    /\ calls < MaxCalls
    /\ \E o \in Ops : \E a \in (IF concurrent THEN ConcRequests(o) ELSE Requests(o)) :
         LET r == WithCalls(a, uuids)
             b == beartype(o, r)
         IN /\ op' = [op EXCEPT ![i] = o]
            /\ req' = [req EXCEPT ![i] = r]
            /\ uuids' = uuids + b.uuid7_calls
            /\ IF b.raise.type # "none"
               THEN /\ pc' = [pc EXCEPT ![i] = "done"]
                    /\ exc' = [exc EXCEPT ![i] = b.raise]
                    /\ outcome' = [outcome EXCEPT ![i] = Failed(o, b.raise)]
               ELSE /\ pc' = [pc EXCEPT ![i] = "planned"]
                    /\ UNCHANGED <<exc, outcome>>
    /\ calls' = calls + 1
    /\ UNCHANGED <<store, pool, counter, conn, txn, si, bi, acc, results, writes,
                   executed, released, cancelled, acquired, mat, life, built>>

\* Acquire taking a connection whether or not the pool has it free.
AcquireAny(i) ==
    /\ pc[i] = "planned"
    /\ \E c \in Conns :
         /\ conn' = [conn EXCEPT ![i] = c]
         /\ pool' = pool \ {c}
    /\ acquired' = [acquired EXCEPT ![i] = @ + 1]
    /\ pc' = [pc EXCEPT ![i] = "acquired"]
    /\ UNCHANGED <<store, counter, calls, op, req, txn, si, bi, acc, results, writes,
                   executed, exc, outcome, released, cancelled, mat, life, built, uuids>>

\* pool.acquire(): the invocation checks a free connection out, or waits.
Acquire(i) ==
    /\ pc[i] = "planned"
    /\ \E c \in pool :
         /\ conn' = [conn EXCEPT ![i] = c]
         /\ pool' = pool \ {c}
    /\ acquired' = [acquired EXCEPT ![i] = @ + 1]
    /\ pc' = [pc EXCEPT ![i] = "acquired"]
    /\ UNCHANGED <<store, counter, calls, op, req, txn, si, bi, acc, results, writes,
                   executed, exc, outcome, released, cancelled, mat, life, built, uuids>>

\* conn.transaction(): BEGIN.
Begin(i) ==
    /\ pc[i] = "acquired"
    /\ txn' = [txn EXCEPT ![i] = "open"]
    /\ pc' = [pc EXCEPT ![i] = "intx"]
    /\ UNCHANGED <<store, pool, counter, calls, op, req, conn, si, bi, acc, results,
                   writes, executed, exc, outcome, released, cancelled, acquired, mat, life, built, uuids>>

\* Whether another open transaction holds an uncommitted row that the insert
\* of statement stmt with parameters p conflicts with (the store makes the
\* insert wait for that transaction to end).
Blocked(i, stmt, p) ==
    LET ins == InsertOf(stmt, p)
    IN /\ WellFormed(stmt)
       /\ ins.table # None
       /\ \E j \in Invs \ {i} :
            /\ txn[j] = "open"
            /\ \E r \in writes[j][ins.table] : Conflicts(ins.table, ins.row, r)

\* The statement at si is finished with rows rs: its result is kept and the
\* loop moves on, or a required row is missing and NoDataFoundError is raised.
FinishStatement(i, stmt, rs) ==
    IF MissingRow(stmt, rs)
    THEN /\ exc' = [exc EXCEPT ![i] = StoreError("NoDataFoundError")]
         /\ pc' = [pc EXCEPT ![i] = "failed"]
         /\ UNCHANGED <<si, bi, acc, results>>
    ELSE /\ results' = [results EXCEPT ![i] = Append(@, rs)]
         /\ si' = [si EXCEPT ![i] = @ + 1]
         /\ bi' = [bi EXCEPT ![i] = 1]
         /\ acc' = [acc EXCEPT ![i] = <<>>]
         /\ UNCHANGED <<exc, pc>>

\* One round trip of the statement loop: the next parameter list of the
\* statement at si is executed inside the open transaction.
ExecItem(i) ==
    /\ pc[i] = "intx"
    /\ si[i] <= Len(Plan(i))
    /\ LET stmt == Plan(i)[si[i]]
           items == Items(stmt)
       IN IF Len(items) = 0
          THEN /\ FinishStatement(i, stmt, <<>>)
               /\ UNCHANGED <<writes, executed>>
          ELSE LET p == items[bi[i]]
               IN /\ ~Blocked(i, stmt, p)
                  /\ \E r \in ExecOne(stmt, p, DBMerge(store, writes[i]), req[i].data_fault) :
                        /\ executed' = [executed EXCEPT ![i] =
                               Append(@, [stmt |-> si[i], item |-> bi[i],
                                          conn |-> conn[i], txn |-> txn[i]])]
                        /\ IF r.err # None
                           THEN /\ exc' = [exc EXCEPT ![i] = StoreError(r.err)]
                                /\ pc' = [pc EXCEPT ![i] = "failed"]
                                /\ UNCHANGED <<si, bi, acc, results, writes>>
                           ELSE /\ writes' = [writes EXCEPT ![i] =
                                      IF r.ins.table = None THEN @
                                      ELSE [@ EXCEPT ![r.ins.table] = @ \cup {r.ins.row}]]
                                /\ IF bi[i] < Len(items)
                                   THEN /\ acc' = [acc EXCEPT ![i] = @ \o r.rows]
                                        /\ bi' = [bi EXCEPT ![i] = @ + 1]
                                        /\ UNCHANGED <<si, results, exc, pc>>
                                   ELSE FinishStatement(i, stmt, acc[i] \o r.rows)
    /\ UNCHANGED <<store, pool, counter, calls, op, req, conn, txn, outcome, released,
                   cancelled, acquired, mat, life, built, uuids>>

\* Every statement has run: COMMIT makes the transaction's rows visible.
Commit(i) ==
    /\ pc[i] = "intx"
    /\ si[i] > Len(Plan(i))
    /\ store' = DBMerge(store, writes[i])
    /\ writes' = [writes EXCEPT ![i] = EmptyDB]
    /\ txn' = [txn EXCEPT ![i] = "committed"]
    /\ pc' = [pc EXCEPT ![i] = "closing"]
    /\ UNCHANGED <<pool, counter, calls, op, req, conn, si, bi, acc, results, executed,
                   exc, outcome, released, cancelled, acquired, mat, life, built, uuids>>

\* An exception leaves the transaction block: ROLLBACK drops its rows.
Rollback(i) ==
    /\ pc[i] = "failed"
    /\ writes' = [writes EXCEPT ![i] = EmptyDB]
    /\ txn' = [txn EXCEPT ![i] = "rolledback"]
    /\ pc' = [pc EXCEPT ![i] = "closing"]
    /\ UNCHANGED <<store, pool, counter, calls, op, req, conn, si, bi, acc, results,
                   executed, exc, outcome, released, cancelled, acquired, mat, life, built, uuids>>

\* The acquire block is left: the connection goes back to the pool.
Release(i) ==
    /\ pc[i] = "closing"
    /\ pool' = pool \cup {conn[i]}
    /\ conn' = [conn EXCEPT ![i] = 0]
    /\ released' = [released EXCEPT ![i] = @ + 1]
    /\ pc' = [pc EXCEPT ![i] = "released"]
    /\ UNCHANGED <<store, counter, calls, op, req, txn, si, bi, acc, results, writes,
                   executed, exc, outcome, cancelled, acquired, mat, life, built, uuids>>

\* pg_query returns or raises, and the decorators around it act in the order
\* the operation stacks them: increase_counter, wrap_in_class, rewrap_exceptions.
Finish(i) ==
    /\ pc[i] = "released"
    /\ IF exc[i].type = "none"
       THEN /\ counter' = IF CounterName(op[i]) = None THEN counter
                          ELSE [counter EXCEPT ![CounterName(op[i])] = @ + 1]
            /\ outcome' = [outcome EXCEPT ![i] =
                             Succeeded(op[i], PyIndex(results[i], ReturnIndex(op[i])))]
       ELSE /\ outcome' = [outcome EXCEPT ![i] = Failed(op[i], exc[i])]
            /\ UNCHANGED counter
    /\ pc' = [pc EXCEPT ![i] = "done"]
    /\ UNCHANGED <<store, pool, calls, op, req, conn, txn, si, bi, acc, results, writes,
                   executed, exc, released, cancelled, acquired, mat, life, built, uuids>>

\* Cancel leaving at once, without giving the connection back.
CancelLeaks(i) ==
    /\ pc[i] \in {"planned", "acquired", "intx"}
    /\ cancelled' = [cancelled EXCEPT ![i] = TRUE]
    /\ exc' = [exc EXCEPT ![i] = CancelledError]
    /\ pc' = [pc EXCEPT ![i] = "released"]
    /\ UNCHANGED <<store, pool, counter, calls, op, req, conn, txn, si, bi, acc, results,
                   writes, executed, outcome, released, acquired, mat, life, built, uuids>>

\* Cancel releasing the connection with the transaction still open on it.
CancelNoRollback(i) ==
    /\ pc[i] \in {"planned", "acquired", "intx"}
    /\ cancelled' = [cancelled EXCEPT ![i] = TRUE]
    /\ exc' = [exc EXCEPT ![i] = CancelledError]
    /\ pc' = [pc EXCEPT ![i] = IF pc[i] = "planned" THEN "released" ELSE "closing"]
    /\ UNCHANGED <<store, pool, counter, calls, op, req, conn, txn, si, bi, acc, results,
                   writes, executed, outcome, released, acquired, mat, life, built, uuids>>

\* The caller's task is cancelled (or times out) while the invocation waits
\* for a connection, holds one, or is between two round trips: CancelledError
\* is raised at that point and unwinds the blocks it is in.
Cancel(i) ==
    /\ pc[i] \in {"planned", "acquired", "intx"}
    /\ cancelled' = [cancelled EXCEPT ![i] = TRUE]
    /\ exc' = [exc EXCEPT ![i] = CancelledError]
    /\ pc' = [pc EXCEPT ![i] = CASE pc[i] = "planned" -> "released"
                                 [] pc[i] = "acquired" -> "closing"
                                 [] pc[i] = "intx" -> "failed"]
    /\ UNCHANGED <<store, pool, counter, calls, op, req, conn, txn, si, bi, acc, results,
                   writes, executed, outcome, released, acquired, mat, life, built, uuids>>

\* The caller has its answer: the slot is free for the next request.
Forget(i) ==
    /\ pc[i] = "done"
    /\ pc' = [pc EXCEPT ![i] = "idle"]
    /\ op' = [op EXCEPT ![i] = None]
    /\ req' = [req EXCEPT ![i] = NoRequest]
    /\ txn' = [txn EXCEPT ![i] = "none"]
    /\ si' = [si EXCEPT ![i] = 1]
    /\ bi' = [bi EXCEPT ![i] = 1]
    /\ acc' = [acc EXCEPT ![i] = <<>>]
    /\ results' = [results EXCEPT ![i] = <<>>]
    /\ executed' = [executed EXCEPT ![i] = <<>>]
    /\ exc' = [exc EXCEPT ![i] = NoError]
    /\ outcome' = [outcome EXCEPT ![i] = NoOutcome]
    /\ acquired' = [acquired EXCEPT ![i] = 0]
    /\ released' = [released EXCEPT ![i] = 0]
    /\ cancelled' = [cancelled EXCEPT ![i] = FALSE]
    /\ UNCHANGED <<store, pool, counter, calls, conn, writes, mat, life, built, uuids>>

\* Requests served one after the other: a request arrives when none is in flight.
InvokeNext(i) ==
    /\ \A j \in Invs : pc[j] = "idle"
    /\ Invoke(i, FALSE)

Next ==
    \E i \in Invs :
        \/ InvokeNext(i)
        \/ Acquire(i)
        \/ Begin(i)
        \/ ExecItem(i)
        \/ Commit(i)
        \/ Rollback(i)
        \/ Release(i)
        \/ Finish(i)
        \/ Cancel(i)
        \/ Forget(i)

Spec == Init /\ [][Next]_vars

\* Requests served concurrently, each taking the lowest free slot.
InvokeAny(i) ==
    /\ \A j \in Invs : j < i => pc[j] # "idle"
    /\ Invoke(i, TRUE)

ConcNext ==
    \E i \in Invs :
        \/ InvokeAny(i)
        \/ Acquire(i)
        \/ Begin(i)
        \/ ExecItem(i)
        \/ Commit(i)
        \/ Rollback(i)
        \/ Release(i)
        \/ Finish(i)
        \/ Cancel(i)
        \/ Forget(i)

ConcSpec == Init /\ [][ConcNext]_vars
\* ---------------------------------------------- a materialization on its own
\* The longest row sequence handed to the materializer.
MaxRows == 3

\* Rows with the columns the authoritative statement of operation o returns.
SampleRows(o) ==
    CASE o = "create_developer" ->
           {[developer_id |-> d, email |-> "e", created_at |-> T0] : d \in DevIds}
      [] o = "create_or_update_user" ->
           {[developer_id |-> "d1", user_id |-> u, name |-> "n"] : u \in {"u1", "u2"}}
      [] o = "patch_user" ->
           {[id |-> u, developer_id |-> "d1", updated_at |-> T0] : u \in {"u1", "u2"}}
      [] o \in {"create_or_update_agent", "list_agents"} ->
           {[developer_id |-> "d1", agent_id |-> a, canonical_name |-> "n",
             metadata |-> "{}"] : a \in {"a1", "a2"}}
      [] o = "create_session" ->
           {[developer_id |-> "d1", session_id |-> x, situation |-> "situation"] :
              x \in {"s1", "s2"}}
      [] o = "patch_session" ->
           {[developer_id |-> "d1", session_id |-> x, updated_at |-> T0] :
              x \in {"s1", "s2"}}
      [] o = "create_entries" ->
           {[session_id |-> "s1", entry_id |-> e, role |-> "user"] : e \in {"e1", "e2"}}
      [] o = "add_entry_relations" ->
           {[session_id |-> "s1", head |-> h, relation |-> "r", tail |-> "e2"] :
              h \in {"e1", "e3"}}
      [] o = "search_docs_by_embedding" ->
           {Docs[k] : k \in 1..Len(Docs)}

\* The sequences over set S of length at most n.
SeqsUpTo(S, n) == UNION {[1..k -> S] : k \in 0..n}

InitMat ==
    /\ InitPipeline
    /\ \E o \in Ops : \E rows \in SeqsUpTo(SampleRows(o), MaxRows) :
         mat = [state |-> "input", op |-> o, rows |-> rows]
    /\ life = NoLife
    /\ built = NoBuilt
    /\ uuids = 0

\* The rows as wrap_in_class leaves them: each row the transform was applied
\* to, as the transform left it (one=True applies it to a single row only).
RowsAfter(o, rows) ==
    IF One(o) /\ Len(rows) # 1 THEN rows
    ELSE [k \in 1..Len(rows) |-> Transform(o, rows[k]).row]

\* wrap_in_class is applied to the rows.
Materialize ==
    /\ mat.state = "input"
    /\ mat' = [state |-> "output", op |-> mat.op, rows |-> mat.rows,
               out |-> wrap_in_class(mat.op, mat.rows),
               after |-> RowsAfter(mat.op, mat.rows)]
    /\ UNCHANGED <<pipeline, life, built, uuids>>

MatNext == Materialize

MatSpec == InitMat /\ [][MatNext]_vars
\* ------------------------------------------------- the lifespan on its own
\* The states the containers are in before lifespan is entered: each slot
\* empty, or holding a pool or client the caller has put there.
InitLife ==
    /\ InitPipeline
    /\ mat = NoMat
    /\ \E state \in [Containers -> [postgres_pool : {NoObject, Object("pool", 0)},
                                    s3_client : {NoObject, Object("client", 0)}]] :
         life = LifeStart(state)
    /\ built = NoBuilt
    /\ uuids = 0

\* async with lifespan(*containers): the code before the first loop. Entries
\* follow each other, or (overlapping) one begins while another is running.
Enter(e, overlapping) ==
    /\ e = life.entries + 1
    /\ e <= MaxEntries
    /\ overlapping \/ \A f \in Entries : life.task[f].phase = "out"
    /\ life' = [life EXCEPT !.task[e] = [NoTask EXCEPT !.phase = "init_pg"],
                            !.entries = e]
    /\ UNCHANGED <<pipeline, mat, built, uuids>>

\* INIT POSTGRES: the test of one iteration, up to the await.
InitPostgres(e) ==
    /\ life.task[e].phase = "init_pg"
    /\ life' = init_postgres(life, e)
    /\ UNCHANGED <<pipeline, mat, built, uuids>>

\* create_db_pool has returned a pool: the coroutine goes on and assigns it.
PoolCreated(e) ==
    /\ life.task[e].phase = "await_pool"
    /\ life' = set_postgres_pool(life, e)
    /\ UNCHANGED <<pipeline, mat, built, uuids>>

\* INIT S3: the test of one iteration, up to the await.
InitS3(e) ==
    /\ life.task[e].phase = "init_s3"
    /\ life' = init_s3(life, e)
    /\ UNCHANGED <<pipeline, mat, built, uuids>>

\* __aenter__ has returned a client: the coroutine goes on and assigns it;
\* after the last iteration, the yield.
ClientCreated(e) ==
    /\ life.task[e].phase = "await_client"
    /\ life' = set_s3_client(life, e)
    /\ UNCHANGED <<pipeline, mat, built, uuids>>

\* The call awaited in an init loop raises instead of returning.
InitRaises(e) ==
    /\ life.task[e].phase \in {"await_pool", "await_client"}
    /\ life' = init_raises(life, e)
    /\ UNCHANGED <<pipeline, mat, built, uuids>>

\* The body of the with block ends, normally or by an exception raised at
\* the yield: the finally block begins.
BodyEnds(e) ==
    /\ life.task[e].phase = "body"
    /\ \E x \in BOOLEAN :
         life' = [life EXCEPT !.task[e].phase = "close_pg", !.task[e].k = 1,
                              !.task[e].raised = x]
    /\ UNCHANGED <<pipeline, mat, built, uuids>>

\* CLOSE POSTGRES: the test of one iteration, up to the await.
ClosePostgres(e) ==
    /\ life.task[e].phase = "close_pg"
    /\ life' = close_postgres(life, e)
    /\ UNCHANGED <<pipeline, mat, built, uuids>>

\* close() of the pool has returned: the coroutine goes on and clears the slot.
PoolClosed(e) ==
    /\ life.task[e].phase = "await_pool_close"
    /\ life' = clear_postgres_pool(life, e)
    /\ UNCHANGED <<pipeline, mat, built, uuids>>

\* CLOSE S3: the test of one iteration, up to the await.
CloseS3(e) ==
    /\ life.task[e].phase = "close_s3"
    /\ life' = close_s3(life, e)
    /\ UNCHANGED <<pipeline, mat, built, uuids>>

\* close() of the client has returned: the coroutine goes on and clears the
\* slot; after the last iteration lifespan is left.
ClientClosed(e) ==
    /\ life.task[e].phase = "await_client_close"
    /\ life' = clear_s3_client(life, e)
    /\ UNCHANGED <<pipeline, mat, built, uuids>>

\* The close() awaited in the finally block raises instead of returning.
CloseRaises(e) ==
    /\ life.task[e].phase \in {"await_pool_close", "await_client_close"}
    /\ life' = close_raises(life, e)
    /\ UNCHANGED <<pipeline, mat, built, uuids>>

\* One entry at a time: lifespan is entered again only after it has been left.
LifeNext ==
    \E e \in Entries :
        \/ Enter(e, FALSE)
        \/ InitPostgres(e)
        \/ PoolCreated(e)
        \/ InitS3(e)
        \/ ClientCreated(e)
        \/ InitRaises(e)
        \/ BodyEnds(e)
        \/ ClosePostgres(e)
        \/ PoolClosed(e)
        \/ CloseS3(e)
        \/ ClientClosed(e)
        \/ CloseRaises(e)

LifeSpec == InitLife /\ [][LifeNext]_vars

\* A coroutine gives way to another only where it awaits: in a call of an init
\* or a close loop, at the yield (its body runs), or outside lifespan.
Suspended(t) ==
    t.phase \in {"out", "await_pool", "await_client", "body",
                 "await_pool_close", "await_client_close"}

\* Entries that overlap: the same containers entered by several coroutines,
\* each running, from one await to the next, while the others wait in theirs.
OverlapNext ==
    \E e \in Entries :
        /\ \A f \in Entries \ {e} : Suspended(life.task[f])
        /\ \/ Enter(e, TRUE)
           \/ InitPostgres(e)
           \/ PoolCreated(e)
           \/ InitS3(e)
           \/ ClientCreated(e)
           \/ InitRaises(e)
           \/ BodyEnds(e)
           \/ ClosePostgres(e)
           \/ PoolClosed(e)
           \/ CloseS3(e)
           \/ ClientClosed(e)
           \/ CloseRaises(e)

OverlapSpec == InitLife /\ [][OverlapNext]_vars
\* ------------------------------------------------- a plan built on its own
\* The longest users and agents lists of a request.
MaxParticipants == 2

\* The create_session requests: any developer, a session id or none, and any
\* combination of user, users, agent and agents.
SessionRequests ==
    {WithCalls(WithFault([developer_id |-> d, session_id |-> x,
                          data |-> SessionData(u, us, a, as)], None), 0) :
       d \in DevIds, x \in {None, "s1"},
       u \in {None, "u1"}, us \in SeqsUpTo({"u1", "u2"}, MaxParticipants),
       a \in {None, "a1"}, as \in SeqsUpTo({"a1", "a2"}, MaxParticipants)}

InitPlan ==
    /\ InitPipeline
    /\ mat = NoMat
    /\ life = NoLife
    /\ \E r \in SessionRequests :
         built = [state |-> "request", op |-> "create_session", req |-> r]
    /\ uuids = 0

\* The body is called with the request.
Build ==
    /\ built.state = "request"
    /\ built' = [state |-> "built", op |-> built.op, req |-> built.req,
                 out |-> Body(built.op, built.req)]
    /\ uuids' = uuids + Body(built.op, built.req).uuid7_calls
    /\ UNCHANGED <<pipeline, mat, life>>

PlanNext == Build

PlanSpec == InitPlan /\ [][PlanNext]_vars
\* ---------------------------------------------------------------- claims
Range(f) == {f[k] : k \in DOMAIN f}

\* The round trips of a plan in declared order: <<statement, parameter list>>.
FlatItems(plan) ==
    Flatten([s \in 1..Len(plan) |-> [b \in 1..Len(Items(plan[s])) |-> <<s, b>>]])

\* The rows invocation i has inserted by round trips that succeeded (the last
\* round trip is the failed one when a store error other than the missing row
\* of a finished statement is propagating); an upsert of a row is left out,
\* since the row may have been there before.
InsertedRows(i) ==
    LET n == Len(executed[i])
        ok(k) == \/ k < n
                 \/ exc[i].type # "store"
                 \/ exc[i].class = "NoDataFoundError"
    IN {InsertOf(Plan(i)[executed[i][k].stmt],
                 Items(Plan(i)[executed[i][k].stmt])[executed[i][k].item]) :
          k \in {k \in 1..n : ok(k) /\ ~IsUpsert(Plan(i)[executed[i][k].stmt])}}

\* No row invocation i inserted is in the committed store.
NothingVisible(i) ==
    \A ins \in InsertedRows(i) : ins.table = None \/ ins.row \notin store[ins.table]

\* C1: when a statement or batch item of a plan fails, the transaction is
\* rolled back and no row inserted by that statement, by an earlier batch item
\* or by an earlier statement is in the store afterwards; and when the failure
\* is a unique violation in a batched insert, the caller receives the domain
\* error the operation maps UniqueViolationError to.
C1_Atomicity ==
    \A i \in Invs :
        /\ (pc[i] \in {"closing", "released", "done"} /\ exc[i].type # "none"
            /\ acquired[i] = 1 /\ executed[i] # <<>>)
             => /\ txn[i] = "rolledback"
                /\ writes[i] = EmptyDB
                /\ NothingVisible(i)
        /\ (pc[i] = "done" /\ exc[i] = StoreError("UniqueViolationError")
            /\ Plan(i)[si[i]].mode = "fetchmany")
             => /\ "UniqueViolationError" \in DOMAIN ErrorMapping(op[i])
                /\ outcome[i] = [kind |-> "error",
                                 error |-> ErrorMapping(op[i])["UniqueViolationError"]]

\* A batched insert of 3 parameter lists whose 2nd violates a unique constraint
\* has ended: the caller has the 409 and no entry is in the store.
C1_Witness ==
    \E i \in Invs :
        /\ pc[i] = "done" /\ op[i] = "create_entries" /\ Len(req[i].data) = 3
        /\ exc[i] = StoreError("UniqueViolationError")
        /\ Len(executed[i]) = 3 /\ executed[i][3].stmt = 2 /\ executed[i][3].item = 2
        /\ outcome[i].kind = "error" /\ outcome[i].error.status_code = 409
        /\ store.entries = {}

\* C2: every execution releases the connection it acquired exactly once, on the
\* commit, failure and cancellation paths: a connection is held exactly while
\* it is acquired and not yet released, it is never released twice, and once
\* the execution has ended none is held and none is lost to the pool.
C2_ReleaseOnce ==
    /\ \A i \in Invs :
         /\ released[i] <= acquired[i] /\ acquired[i] <= 1
         /\ (conn[i] # 0) <=> (acquired[i] = 1 /\ released[i] = 0)
         /\ conn[i] # 0 => conn[i] \notin pool
         /\ pc[i] \in {"released", "done"} => (conn[i] = 0 /\ released[i] = acquired[i])
         /\ pc[i] \in {"acquired", "intx", "failed", "closing"} => conn[i] # 0
    /\ pool \cup {conn[i] : i \in {j \in Invs : conn[j] # 0}} = Conns

\* A cancelled execution that had opened its transaction has ended, its
\* connection released once.
C2_Witness ==
    \E i \in Invs :
        /\ pc[i] = "done" /\ cancelled[i] /\ txn[i] = "rolledback"
        /\ acquired[i] = 1 /\ released[i] = 1 /\ conn[i] = 0 /\ pool = Conns

\* C3: when a store error leaves the engine, the caller receives the domain
\* error the operation's mapping declares for its class (for
\* create_or_update_agent: 404 for a foreign-key, 409 for a unique, 400 for a
\* check violation and for a data error), the store error itself when the
\* mapping has no entry for the class, and on success the materialized result
\* as it is.
C3_Translation ==
    \A i \in Invs : pc[i] = "done" =>
        /\ exc[i].type = "store" =>
             IF exc[i].class \in DOMAIN ErrorMapping(op[i])
             THEN /\ outcome[i] = [kind |-> "error",
                                   error |-> ErrorMapping(op[i])[exc[i].class]]
                  /\ outcome[i].error.type = "HTTPException"
                  /\ op[i] = "create_or_update_agent" =>
                       outcome[i].error.status_code =
                         CASE exc[i].class = "ForeignKeyViolationError" -> 404
                           [] exc[i].class = "UniqueViolationError" -> 409
                           [] exc[i].class = "CheckViolationError" -> 400
                           [] exc[i].class = "DataError" -> 400
             ELSE outcome[i] = [kind |-> "error", error |-> exc[i]]
        /\ exc[i].type = "none" =>
             LET m == wrap_in_class(op[i], PyIndex(results[i], ReturnIndex(op[i])))
             IN m.error.type = "none" => outcome[i] = [kind |-> "ok", value |-> m.value]

\* create_or_update_agent has failed on a duplicate and the caller has the 409.
C3_Witness ==
    \E i \in Invs :
        /\ pc[i] = "done" /\ op[i] = "create_or_update_agent"
        /\ exc[i] = StoreError("UniqueViolationError")
        /\ outcome[i].error.status_code = 409

\* The operations the source declares with one=True.
DeclaredSingle == {"patch_session", "patch_user", "create_session",
                   "create_or_update_agent", "create_developer"}

\* C4: for an operation declared with one=True, no row yields the NotFound
\* error, one row the transformed record, two or more rows the cardinality
\* error and no record.
C4_Single ==
    (mat.state = "output" /\ mat.op \in DeclaredSingle) =>
        /\ Len(mat.rows) = 0 => mat.out.error.type = "NotFound"
        /\ Len(mat.rows) = 1 =>
             /\ mat.out.error.type = "none"
             /\ mat.out.value = Record(TargetClass(mat.op), Transform(mat.op, mat.rows[1]).out)
        /\ Len(mat.rows) >= 2 =>
             /\ mat.out.error.type = "CardinalityError"
             /\ mat.out.value = <<>>

\* patch_user materialized from no row, ending in NotFound.
C4_Witness ==
    /\ mat.state = "output" /\ mat.op = "patch_user" /\ Len(mat.rows) = 0
    /\ mat.out.error.type = "NotFound"

\* C5: for an operation not declared with one=True, the output has as many
\* records as there are rows, record k is the transform of row k (for
\* create_entries: entry_id renamed to id, the other columns kept), and no row
\* yields the empty sequence and no error.
C5_Many ==
    (mat.state = "output" /\ mat.op \notin DeclaredSingle) =>
        /\ mat.out.error.type = "none"
        /\ Len(mat.out.value) = Len(mat.rows)
        /\ \A k \in 1..Len(mat.rows) :
             /\ mat.out.value[k] =
                  Record(TargetClass(mat.op), Transform(mat.op, mat.rows[k]).out)
             /\ mat.op = "create_entries" =>
                  mat.out.value[k].fields =
                    [id |-> mat.rows[k].entry_id, session_id |-> mat.rows[k].session_id,
                     role |-> mat.rows[k].role]
             /\ mat.op = "list_agents" =>
                  mat.out.value[k].fields.id = mat.rows[k].agent_id

\* create_entries materialized from rows e2, e1: the records are e2, e1.
C5_Witness ==
    /\ mat.state = "output" /\ mat.op = "create_entries" /\ Len(mat.rows) = 2
    /\ mat.rows[1].entry_id = "e2" /\ mat.rows[2].entry_id = "e1"
    /\ mat.out.value[1].fields.id = "e2" /\ mat.out.value[2].fields.id = "e1"

\* The session_lookup rows create_session owes for request r.
ExpectedLookups(r) ==
    {<<r.developer_id, r.session_id, "user", u>> :
        u \in (IF r.data.users # <<>> THEN Range(r.data.users) ELSE {r.data.user} \ {None})}
    \cup {<<r.developer_id, r.session_id, "agent", a>> :
        a \in (IF r.data.agents # <<>> THEN Range(r.data.agents) ELSE {r.data.agent} \ {None})}

\* The round trips made so far are the first ones of the plan, in its order,
\* all on the connection of the first and inside the open transaction; a
\* committed transaction has made them all.
C6_Prefix ==
    \A i \in Invs : pc[i] # "idle" =>
        LET flat == FlatItems(Plan(i))
            n == Len(executed[i])
        IN /\ n <= Len(flat)
           /\ \A k \in 1..n :
                /\ <<executed[i][k].stmt, executed[i][k].item>> = flat[k]
                /\ executed[i][k].conn # 0
                /\ executed[i][k].conn = executed[i][1].conn
                /\ executed[i][k].txn = "open"
           /\ txn[i] = "committed" =>
                /\ n = Len(flat)
                /\ op[i] = "create_session" =>
                     ExpectedLookups(req[i]) \subseteq store.session_lookup

\* With an exception propagating, no step of the invocation makes a round trip.
C6_Stops ==
    \A i \in Invs :
        (exc[i].type # "none" /\ pc'[i] # "idle") => executed'[i] = executed[i]

\* C6: the round trips an execution has made are a prefix of its plan in
\* declared order, all on one connection inside its open transaction; none is
\* made once an exception is propagating; and when the transaction commits
\* every statement has run, create_session's lookup inserts included.
C6_Order == []C6_Prefix /\ [][C6_Stops]_vars

\* create_session for a user and an agent has committed after its three round
\* trips, and both lookup rows are in the store.
C6_Witness ==
    \E i \in Invs :
        /\ op[i] = "create_session" /\ txn[i] = "committed" /\ Len(executed[i]) = 3
        /\ executed[i][3].stmt = 2 /\ executed[i][3].item = 2
        /\ <<"d1", "s1", "user", "u1">> \in store.session_lookup

\* C7: when create_entries or add_entry_relations finds no session of that
\* developer, the caller receives the 404 "Session not found" and no round
\* trip of the insert statement is made; the insert runs only for a session
\* that exists.
C7_ExistenceCheck ==
    \A i \in Invs : op[i] \in {"create_entries", "add_entry_relations"} =>
        /\ (pc[i] = "done" /\ ~cancelled[i]
            /\ <<req[i].developer_id, req[i].session_id>> \notin store.sessions)
             => /\ outcome[i] = [kind |-> "error", error |-> Http(404, "Session not found")]
                /\ Len(executed[i]) = 1 /\ executed[i][1].stmt = 1
        /\ (\E k \in 1..Len(executed[i]) : executed[i][k].stmt = 2)
             => <<req[i].developer_id, req[i].session_id>> \in store.sessions

\* create_entries for a session that does not exist has ended with the 404
\* after the existence check alone.
C7_Witness ==
    \E i \in Invs :
        /\ pc[i] = "done" /\ op[i] = "create_entries" /\ Len(req[i].data) = 3
        /\ store.sessions = {}
        /\ Len(executed[i]) = 1
        /\ outcome[i].kind = "error" /\ outcome[i].error.status_code = 404

\* C8: an execution cancelled while it waits for a connection, holds one or is
\* between two round trips never commits; once it has ended its transaction is
\* rolled back (or was never opened), its connection is back in the pool and
\* none of the rows it inserted is in the store.
C8_Cancellation ==
    \A i \in Invs : cancelled[i] =>
        /\ txn[i] # "committed"
        /\ exc[i] = CancelledError
        /\ pc[i] \in {"released", "done"} =>
             /\ txn[i] \in {"none", "rolledback"}
             /\ writes[i] = EmptyDB
             /\ conn[i] = 0 /\ released[i] = acquired[i]
             /\ NothingVisible(i)
        /\ pc[i] = "done" => outcome[i] = [kind |-> "error", error |-> CancelledError]

\* create_session was cancelled after its session insert: it has ended rolled
\* back, with no session in the store.
C8_Witness ==
    \E i \in Invs :
        /\ pc[i] = "done" /\ cancelled[i] /\ op[i] = "create_session"
        /\ Len(executed[i]) = 1 /\ txn[i] = "rolledback"
        /\ store.sessions = {} /\ pool = Conns

\* The requests the operations' validation refuses.
Invalid(o, r) ==
    \/ o = "create_session" /\ r.data.agent = None /\ r.data.agents = <<>>
    \/ o = "create_session" /\ r.data.agent # None /\ r.data.agents # <<>>
    \/ o = "search_docs_by_embedding" /\ r.k < 1
    \/ o = "search_docs_by_embedding" /\ r.query_embedding = <<>>

\* C9: create_session with no agent or with both agent and agents, and
\* search_docs_by_embedding with k < 1 or an empty embedding, end at once with
\* a status 400 HTTPException, the one the body raised: no connection is
\* acquired, no transaction begun, no round trip made.
C9_Validation ==
    \A i \in Invs : (pc[i] # "idle" /\ Invalid(op[i], req[i])) =>
        /\ pc[i] = "done"
        /\ acquired[i] = 0 /\ conn[i] = 0 /\ txn[i] = "none" /\ executed[i] = <<>>
        /\ exc[i].type = "HTTPException" /\ exc[i].status_code = 400
        /\ outcome[i] = [kind |-> "error", error |-> exc[i]]

\* create_session given both agent and agents has ended with the 400.
C9_Witness ==
    \E i \in Invs :
        /\ pc[i] = "done" /\ op[i] = "create_session"
        /\ req[i].data.agent = "a1" /\ req[i].data.agents = <<"a1">>
        /\ outcome[i] = [kind |-> "error",
                         error |-> Http(400, "Only one of 'agent' or 'agents' should be provided")]
        /\ acquired[i] = 0

\* C10: with invocations running concurrently, each holds at most one
\* connection, one the pool checked out to it; the connections checked out are
\* never more than the pool has, no connection is held by two invocations, and
\* no row of one invocation is visible to another before it is committed: an
\* existence check answers true only for a committed session, and two open
\* transactions never hold rows that conflict with each other.
C10_Pool ==
    /\ Cardinality({i \in Invs : conn[i] # 0}) <= PoolSize
    /\ \A i \in Invs :
         /\ acquired[i] - released[i] \in {0, 1}
         /\ conn[i] # 0 => (conn[i] \in Conns /\ conn[i] \notin pool)
         /\ \A j \in Invs \ {i} : conn[i] # 0 => conn[j] # conn[i]
         /\ \A k \in 1..Len(executed[i]) : executed[i][k].conn # 0
         /\ (op[i] = "create_entries" /\ results[i] # <<>>
             /\ results[i][1][1]["exists"])
              => <<req[i].developer_id, req[i].session_id>> \in store.sessions
         /\ \A j \in Invs \ {i} : \A t \in Tables :
              \A r \in writes[i][t] : \A q \in writes[j][t] : ~Conflicts(t, r, q)
    /\ Cardinality(pool) + Cardinality({i \in Invs : conn[i] # 0}) = PoolSize

\* Two transactions are open on the pool's two connections while a third
\* invocation waits for one: create_session has written its session and not
\* committed it, and the existence check of create_entries for that session
\* has answered false, so that create_entries ends in NoDataFoundError.
C10_Witness ==
    \E i, j, k \in Invs :
        /\ i # j /\ i # k /\ j # k
        /\ op[i] = "create_session" /\ pc[i] = "intx" /\ txn[i] = "open"
        /\ <<req[i].developer_id, req[i].session_id>> \in writes[i].sessions
        /\ op[j] = "create_entries" /\ pc[j] = "failed" /\ txn[j] = "open"
        /\ req[j].developer_id = req[i].developer_id
        /\ req[j].session_id = req[i].session_id
        /\ exc[j] = StoreError("NoDataFoundError")
        /\ conn[i] # 0 /\ conn[j] # 0 /\ conn[i] # conn[j]
        /\ store.sessions = {}
        /\ pc[k] = "planned" /\ pool = {}
\* C11: in every plan an operation builds, each parameter list of each
\* statement (each list of the batch, in batch mode) has exactly as many
\* values as the highest placeholder $n of the statement's SQL text.
C11_ParamsMatchPlaceholders ==
    \A i \in Invs : pc[i] # "idle" =>
        \A s \in 1..Len(Plan(i)) :
            \A k \in 1..Len(Items(Plan(i)[s])) :
                Len(Items(Plan(i)[s])[k]) = Placeholders(Plan(i)[s])
\* C12: a transform leaves the rows it is applied to as they were, so that
\* materializing the same rows again yields the same records.
C12_TransformPure ==
    mat.state = "output" =>
        /\ mat.after = mat.rows
        /\ wrap_in_class(mat.op, mat.after) = mat.out
\* C13: the invocation counter is incremented only for an invocation that
\* succeeds: the step in which an invocation ends in an error (validation,
\* store, NotFound or cardinality error) leaves every counter as it was.
C13_CountOnlySuccess ==
    [][\A i \in Invs :
         (pc[i] # "done" /\ pc'[i] = "done" /\ outcome'[i].kind = "error")
            => counter' = counter]_vars
\* While the body runs every container holds an open pool and an open client;
\* once lifespan has been left after its body ended (at the end of the finally
\* block or by an exception raised in it), no container holds any and none is
\* open.
C14_Slots ==
    /\ \A e \in Entries : life.task[e].phase = "body" =>
         \A c \in Containers :
            /\ Held(life.state[c].postgres_pool) /\ life.state[c].postgres_pool \in life.open
            /\ Held(life.state[c].s3_client) /\ life.state[c].s3_client \in life.open
    /\ ((\A e \in Entries : life.task[e].phase = "out")
          /\ life.last \in {"closed", "close_failed"}) =>
         /\ \A c \in Containers :
               ~Held(life.state[c].postgres_pool) /\ ~Held(life.state[c].s3_client)
         /\ life.open = {}

\* Creating leaves a slot that holds something as it is: exactly the empty
\* slots are filled, each with an object made in that step, and that object
\* is a new one.
C14_Creates ==
    (\E e \in Entries :
        life.task[e].phase \in {"init_pg", "await_pool", "init_s3", "await_client"}) =>
        /\ \A c \in Containers :
            /\ Held(life.state[c].postgres_pool)
                 => life'.state[c].postgres_pool = life.state[c].postgres_pool
            /\ Held(life.state[c].s3_client)
                 => life'.state[c].s3_client = life.state[c].s3_client
            /\ life'.state[c].postgres_pool # life.state[c].postgres_pool
                 => life'.state[c].postgres_pool \notin life.open \cup life.closed
            /\ life'.state[c].s3_client # life.state[c].s3_client
                 => life'.state[c].s3_client \notin life.open \cup life.closed
        /\ life'.made - life.made =
             Cardinality({c \in Containers :
                            \/ ~Held(life.state[c].postgres_pool)
                               /\ Held(life'.state[c].postgres_pool)
                            \/ ~Held(life.state[c].s3_client)
                               /\ Held(life'.state[c].s3_client)})
        /\ life'.closed = life.closed

\* C14: lifespan creates a pool and a client only for a container that holds
\* none; when its body has ended, normally or by an exception, every pool and
\* client still set has been closed and its slot set to None, so that no
\* container holds an open one after lifespan is left, and entering lifespan
\* again creates fresh ones.
C14_Lifespan == []C14_Slots /\ [][C14_Creates]_vars

\* C15: the mapping of every operation invoked gives a foreign-key violation,
\* where it has an entry for it, status 404, and a unique violation, where it
\* has an entry for it, status 409; and that is what the caller receives.
C15_MappingsConsistent ==
    \A i \in Invs : pc[i] # "idle" =>
        LET mapping == ErrorMapping(op[i])
        IN /\ "ForeignKeyViolationError" \in DOMAIN mapping
                => mapping["ForeignKeyViolationError"].status_code = 404
           /\ "UniqueViolationError" \in DOMAIN mapping
                => mapping["UniqueViolationError"].status_code = 409
           /\ (pc[i] = "done" /\ exc[i] = StoreError("UniqueViolationError")
               /\ "UniqueViolationError" \in DOMAIN mapping)
                => outcome[i].error.status_code = 409
\* C16: for a valid create_session request the plan is the session insert,
\* whose rows are returned (index 0), followed by the batched lookup insert
\* with one parameter list per participant: the users in request order, then
\* the agents in request order, each with the developer_id and session_id of
\* the session insert; the batch is not empty.
C16_PlanShape ==
    (built.state = "built" /\ ~Invalid("create_session", built.req)) =>
        LET data == built.req.data
            users == IF data.users # <<>> THEN data.users
                     ELSE IF data.user # None THEN <<data.user>> ELSE <<>>
            agents == IF data.agents # <<>> THEN data.agents ELSE <<data.agent>>
            q == built.out.queries
        IN /\ built.out.raise.type = "none"
           /\ Len(q) = 2
           /\ q[1].sql = "create_session.session_query" /\ q[1].mode = "fetch"
           /\ q[1].params[1] = built.req.developer_id
           /\ built.req.session_id # None => q[1].params[2] = built.req.session_id
           /\ PyIndex(q, ReturnIndex("create_session")) = q[1]
           /\ q[2].sql = "create_session.lookup_query" /\ q[2].mode = "fetchmany"
           /\ Len(q[2].params) = Len(users) + Len(agents)
           /\ Len(q[2].params) >= 1
           /\ \A k \in 1..Len(users) :
                q[2].params[k] = <<q[1].params[1], q[1].params[2], "user", users[k]>>
           /\ \A k \in 1..Len(agents) :
                q[2].params[Len(users) + k]
                  = <<q[1].params[1], q[1].params[2], "agent", agents[k]>>

\* The plan built for users u1, u2 and agents a2, a1 and no session id: four
\* lookup lists, the users' first, all with the id made for the session.
C16_Witness ==
    /\ built.state = "built"
    /\ built.req.session_id = None
    /\ built.req.data.users = <<"u1", "u2">> /\ built.req.data.agents = <<"a2", "a1">>
    /\ Len(built.out.queries) = 2
    /\ built.out.queries[2].params =
         << <<built.req.developer_id, uuid7(1), "user", "u1">>,
            <<built.req.developer_id, uuid7(1), "user", "u2">>,
            <<built.req.developer_id, uuid7(1), "agent", "a2">>,
            <<built.req.developer_id, uuid7(1), "agent", "a1">> >>
====
